---- MODULE Spec2Model ----
(***************************************************************************)
(* Model of FaceSwapDeepfake (deepfake/src/utils/faceswap.py): the face    *)
(* tracker face_detect_with_alignment_crop, the two video orchestrators    *)
(* swap_video_thread / swap_video_cuda with their dispatcher swap_video,   *)
(* the pool worker process_frame and the still-image path swap_image.      *)
(*                                                                         *)
(* Collaborators (detector, swap model, safety filter, embedding           *)
(* similarity) are modelled by their contracts:                            *)
(*   - a frame file carries the ordered list of faces the detector finds   *)
(*     in it and the verdict of the safety filter on it;                   *)
(*   - a face is an index into a catalog (bbox, gender, embedding);        *)
(*     0 stands for Python's None in a selection;                          *)
(*   - an image value is [src, swaps]: the file it was read from and the   *)
(*     faces the swap model has pasted over it, in call order.             *)
(***************************************************************************)
EXTENDS Integers, Sequences, FiniteSets, TLC

VARIABLES
    files,        \* the frame directory: files[k] is the k-th file in name order
    face_fields,  \* target_face_fields / face_fields: the crop selector or NoFields
    similarface,  \* self.similarface
    opts,         \* call options: multiface, start_frame, end_frame, video_format
    env,          \* device, onnx providers, torch.cuda, WUNJO_TORCH_DEVICE
    pc,           \* position of the current call
    call,         \* locals of the running orchestrator call
    trk,          \* locals of face_detect_with_alignment_crop
    pool,         \* ThreadPoolExecutor: per-task position, self.lock, self.progress
    disk,         \* save_path/faceswap_frames: intermediate frame files by name
    frame_dir,    \* whether the directory save_path/faceswap_frames exists
    log,          \* collaborator calls made by the current call
    runs,         \* finished calls, oldest first
    calls_left,   \* calls the caller of the instance is still to make
    sortio,       \* input and result of the file-name ordering check
    peer          \* a second caller with its own instance and the same save_path

vars == <<files, face_fields, similarface, opts, env, pc, call, trk, pool, disk,
          frame_dir, log, runs, calls_left, sortio, peer>>

----------------------------------------------------------------------------
\* Bounds of the model.

\* Largest number of frame files in the directory.
MaxFrames == 3
\* Largest number of orchestrator calls made on one instance.
MaxRuns == 2

\* Python's None for an integer-valued local (coordinates are >= 0).
None == -1
\* face_fields is None
NoFields == [x |-> None, y |-> None, canvasWidth |-> None, canvasHeight |-> None]

\* frame.shape of every frame of the video: <<height, width>>
ImgShape == <<8, 8>>

----------------------------------------------------------------------------
\* Face descriptors produced by the detector (insightface Face objects).

FaceCatalog ==
    <<[bbox |-> <<0, 0, 3, 3>>, gender |-> "M", emb |-> 1],
      [bbox |-> <<4, 4, 7, 7>>, gender |-> "F", emb |-> 2],
      [bbox |-> <<4, 0, 7, 3>>, gender |-> "F", emb |-> 1],
      [bbox |-> <<1, 1, 4, 4>>, gender |-> "M", emb |-> 3]>>

Faces == 1..Len(FaceCatalog)
Bbox(f) == FaceCatalog[f].bbox
Gender(f) == FaceCatalog[f].gender
Emb(f) == FaceCatalog[f].emb

\* Which embeddings the recognition model holds to be the same person at
\* self.similar_coeff: reflexive and symmetric, not transitive (1 ~ 3 and
\* 3 ~ 2, but not 1 ~ 2).
SimilarPairs ==
    {<<1, 1>>, <<2, 2>>, <<3, 3>>, <<1, 3>>, <<3, 1>>, <<2, 3>>, <<3, 2>>}

\* self.face_recognition.is_similar_face(embedding, history, coeff)
is_similar_face(e, history) ==
    \E k \in 1..Len(history) : <<e, history[k]>> \in SimilarPairs

\* x1 <= x <= x2 and y1 <= y <= y2
Contains(bbox, x, y) ==
    /\ bbox[1] <= x /\ x <= bbox[3]
    /\ bbox[2] <= y /\ y <= bbox[4]

\* FaceSwapDeepfake.get_center: int((x1 + x2) / 2), int((y1 + y2) / 2)
get_center(f) ==
    <<(Bbox(f)[1] + Bbox(f)[3]) \div 2, (Bbox(f)[2] + Bbox(f)[4]) \div 2>>

\* FaceSwapDeepfake.get_real_crop_box: the centre of the unit square at the
\* selector, scaled from canvas to image pixels and truncated.
\* int((x*s + (x+1)*s) / 2) with s = width / canvasWidth.
get_real_crop_box(shape, squareFace) ==
    IF squareFace = NoFields
    THEN <<None, None>>
    ELSE <<((2 * squareFace.x + 1) * shape[2]) \div (2 * squareFace.canvasWidth),
           ((2 * squareFace.y + 1) * shape[1]) \div (2 * squareFace.canvasHeight)>>

\* FaceSwapDeepfake.get_min_distance, as 400 * (0.35 * diagonal)^2 so that
\* "distance < min_distance" is an integer comparison of squares.
get_min_distance(shape) == 49 * (shape[1] * shape[1] + shape[2] * shape[2])

\* FaceSwapDeepfake.euclidean_distance, as 400 * distance^2.
euclidean_distance(p, q) ==
    400 * ((p[1] - q[1]) * (p[1] - q[1]) + (p[2] - q[2]) * (p[2] - q[2]))

Min(S) == CHOOSE m \in S : \A o \in S : m <= o
Max(S) == CHOOSE m \in S : \A o \in S : o <= m

----------------------------------------------------------------------------
\* face_detect_with_alignment_crop: one frame of the loop "for n, image_file".
\* t is the record of the function's locals; each operator returns the
\* locals after the branch it models.

\* self.face_recognition.get_faces(cv2.imread(image_file))
get_faces(file) == files[file].dets

\* The assignments shared by the three adopting branches of the cold start.
Adopt(t, face) ==
    [t EXCEPT !.face_gender = Gender(face),
              !.predictions = Append(@, <<face>>),
              !.face_embedding_list = @ \o <<Emb(face)>>,
              !.x_center = get_center(face)[1],
              !.y_center = get_center(face)[2]]

\* Mutant: a frame without detections is skipped, nothing is appended.
NoDetections_Skip(t) == t

\* "if not dets": predictions.append([None]); continue
NoDetections(t) == [t EXCEPT !.predictions = Append(@, <<0>>)]

\* Mutant: the last detected face is adopted instead of the first.
InitFirstFace_Last(t, dets) == Adopt(t, dets[Len(dets)])

\* "if x_center is None or y_center is None": adopt dets[0].
InitFirstFace(t, dets) == Adopt(t, dets[1])

\* The fallback loop over dets at n == 0: <<closest_face, min_distance>>
\* after faces k..len(dets), 0 standing for closest_face = None.
RECURSIVE ClosestFace(_, _, _, _, _)
ClosestFace(t, dets, k, closest_face, min_distance) ==
    IF k > Len(dets)
    THEN <<closest_face, min_distance>>
    ELSE LET distance ==
                 euclidean_distance(<<t.x_center, t.y_center>>, get_center(dets[k]))
         IN  IF distance < min_distance
             THEN ClosestFace(t, dets, k + 1, dets[k], distance)
             ELSE ClosestFace(t, dets, k + 1, closest_face, min_distance)

\* Mutant: the loop does not break at the first box holding the centre, so
\* the last such face is the one adopted.
SetNewFace_LastInside(t, dets) ==
    LET inside == {k \in 1..Len(dets) : Contains(Bbox(dets[k]), t.x_center, t.y_center)}
        near == ClosestFace(t, dets, 1, 0, t.min_distance)
    IN  IF inside # {}
        THEN Adopt(t, dets[Max(inside)])
        ELSE IF t.n = 0
             THEN IF near[1] # 0
                  THEN [Adopt(t, near[1]) EXCEPT !.min_distance = near[2]]
                  ELSE [t EXCEPT !.min_distance = near[2]]
             ELSE t

\* "elif not face_embedding_list": the first face whose box holds the centre,
\* else (for ... else) the nearest face within min_distance when n == 0, else
\* nothing at all: no entry is appended to predictions.
SetNewFace(t, dets) ==
    LET inside == {k \in 1..Len(dets) : Contains(Bbox(dets[k]), t.x_center, t.y_center)}
        near == ClosestFace(t, dets, 1, 0, t.min_distance)
    IN  IF inside # {}
        THEN Adopt(t, dets[Min(inside)])
        ELSE IF t.n = 0
             THEN IF near[1] # 0
                  THEN [Adopt(t, near[1]) EXCEPT !.min_distance = near[2]]
                  ELSE [t EXCEPT !.min_distance = near[2]]
             ELSE t

\* The first loop of the "already recognition" branch: local_face_param.
\* x_center, y_center are overwritten with the face's own centre before the
\* containment test; is_gender and is_embed read the locals as they are at
\* the start of the frame.
FaceParam(t, dets, i) ==
    LET own == get_center(dets[i])
    IN  [is_center |-> Contains(Bbox(dets[i]), own[1], own[2]),
         is_gender |-> t.face_gender = Gender(dets[i]),
         is_embed |-> is_similar_face(Emb(dets[i]), t.face_embedding_list),
         id |-> i]

\* "(param["is_center"] or param["is_gender"]) and param["is_embed"]"
Accepted(param) == (param.is_center \/ param.is_gender) /\ param.is_embed

\* Mutant: an accepted face's embedding is assigned to the history ("=" for
\* "+="), not appended to it.
RECURSIVE PredictLoop_Replace(_, _, _, _, _)
PredictLoop_Replace(t, dets, params, k, local_predictions) ==
    IF k > Len(params)
    THEN <<t, local_predictions>>
    ELSE IF Accepted(params[k])
         THEN LET face == dets[params[k].id]
                  t2 == [t EXCEPT !.face_gender = Gender(face),
                                  !.face_embedding_list = <<Emb(face)>>,
                                  !.x_center = get_center(face)[1],
                                  !.y_center = get_center(face)[2]]
                  lp == Append(local_predictions, face)
              IN  IF ~similarface
                  THEN <<t2, lp>>
                  ELSE PredictLoop_Replace(t2, dets, params, k + 1, lp)
         ELSE PredictLoop_Replace(t, dets, params, k + 1, local_predictions)

\* The second loop: <<locals, local_predictions>> after params k..end.
RECURSIVE PredictLoop(_, _, _, _, _)
PredictLoop(t, dets, params, k, local_predictions) ==
    IF k > Len(params)
    THEN <<t, local_predictions>>
    ELSE IF Accepted(params[k])
         THEN LET face == dets[params[k].id]
                  t2 == [t EXCEPT !.face_gender = Gender(face),
                                  !.face_embedding_list = @ \o <<Emb(face)>>,
                                  !.x_center = get_center(face)[1],
                                  !.y_center = get_center(face)[2]]
                  lp == Append(local_predictions, face)
              IN  IF ~similarface
                  THEN <<t2, lp>>
                  ELSE PredictLoop(t2, dets, params, k + 1, lp)
         ELSE PredictLoop(t, dets, params, k + 1, local_predictions)

\* "else: # here is already recognition"
AlreadyRecognition(t, dets) ==
    LET params == [i \in 1..Len(dets) |-> FaceParam(t, dets, i)]
        last == get_center(dets[Len(dets)])
        t1 == [t EXCEPT !.x_center = last[1], !.y_center = last[2]]
        res == PredictLoop(t1, dets, params, 1, <<>>)
    IN  [res[1] EXCEPT !.predictions =
            Append(@, IF Len(res[2]) > 0 THEN res[2] ELSE <<0>>)]

\* Which branch of the loop body the frame takes.
Branch(t, dets) ==
    IF dets = <<>> THEN "none"
    ELSE IF t.x_center = None \/ t.y_center = None THEN "first"
    ELSE IF t.face_embedding_list = <<>> THEN "cold"
    ELSE "warm"

\* The loop body for frame n (0-based) of image_files.
TrackStep(t) ==
    LET dets == get_faces(t.image_files[t.n + 1])
        b == Branch(t, dets)
        t1 == CASE b = "none" -> NoDetections(t)
                [] b = "first" -> InitFirstFace(t, dets)
                [] b = "cold" -> SetNewFace(t, dets)
                [] OTHER -> AlreadyRecognition(t, dets)
    IN  [t1 EXCEPT !.n = @ + 1, !.path = Append(@, b)]

\* The locals before the loop: lines 152-159.
TrackStart(image_files, fields) ==
    LET c == get_real_crop_box(ImgShape, fields)
    IN  [image_files |-> image_files, n |-> 0,
         x_center |-> c[1], y_center |-> c[2],
         min_distance |-> get_min_distance(ImgShape),
         face_gender |-> "None", face_embedding_list |-> <<>>,
         predictions |-> <<>>, path |-> <<>>]

\* No tracker call is active.
NoTrack ==
    [image_files |-> <<>>, n |-> 0, x_center |-> None, y_center |-> None,
     min_distance |-> 0, face_gender |-> "None", face_embedding_list |-> <<>>,
     predictions |-> <<>>, path |-> <<>>]

----------------------------------------------------------------------------
\* Images, the safety filter and the swap model.

\* cv2.imread(file): the frame as stored, nothing pasted on it yet.
imread(file) == [src |-> file, swaps |-> <<>>]

\* self.filter_model.status(frame): TRUE when the frame is safe to swap.
status(img) == files[img.src].safe

\* "for face in dets: if face is None: break; else: frame = swap(frame, face)"
RECURSIVE SwapFaces(_, _, _)
SwapFaces(img, selection, k) ==
    IF k > Len(selection) \/ selection[k] = 0
    THEN img
    ELSE SwapFaces([img EXCEPT !.swaps = Append(@, selection[k])], selection, k + 1)

\* Mutant: the worker swaps without asking the safety filter.
ProcessFrameImage_NoGate(frame, face_det_result) == SwapFaces(frame, face_det_result, 1)

\* process_frame, lines 258-266: the frame the worker saves.
ProcessFrameImage(frame, face_det_result) ==
    IF status(frame) THEN SwapFaces(frame, face_det_result, 1) ELSE frame

\* swap_video_cuda, lines 402-410: the frame the loop writes.
CudaFrameImage(frame, dets) ==
    IF status(frame) THEN SwapFaces(frame, dets, 1) ELSE frame

\* The collaborator calls behind a produced frame: one gate call, and one swap
\* call per face pasted on it.
FrameCalls(img) ==
    {[op |-> "gate", src |-> img.src, face |-> 0]}
        \cup {[op |-> "swap", src |-> img.src, face |-> img.swaps[k]] :
                k \in 1..Len(img.swaps)}

DetectCall(file) == [op |-> "detect", src |-> file, face |-> 0]

----------------------------------------------------------------------------
\* Intermediate file names of the threaded path: f"frame_{idx:04d}.png".

PadWidth == 4

\* Decimal digits of n, most significant first, as character codes.
RECURSIVE Digits(_)
Digits(n) == IF n < 10 THEN <<48 + n>> ELSE Append(Digits(n \div 10), 48 + (n % 10))

RECURSIVE ZeroPad(_, _)
ZeroPad(d, width) == IF Len(d) >= width THEN d ELSE ZeroPad(<<48>> \o d, width)

\* The part of the name that differs between frames: the padded index and
\* the "." that follows it.
FrameName(idx) == ZeroPad(Digits(idx), PadWidth) \o <<46>>

\* Python's str "<": the first differing character decides, a proper prefix
\* is smaller.
RECURSIVE StrLess(_, _)
StrLess(a, b) ==
    IF b = <<>> THEN FALSE
    ELSE IF a = <<>> THEN TRUE
    ELSE IF Head(a) # Head(b) THEN Head(a) < Head(b)
    ELSE StrLess(Tail(a), Tail(b))

\* list.sort() of a list of distinct names.
RECURSIVE SortNames(_)
SortNames(names) ==
    IF names = <<>>
    THEN <<>>
    ELSE LET m == CHOOSE k \in 1..Len(names) :
                      \A o \in 1..Len(names) : o = k \/ StrLess(names[k], names[o])
             rest == [q \in 1..(Len(names) - 1) |->
                          IF q < m THEN names[q] ELSE names[q + 1]]
         IN  <<names[m]>> \o SortNames(rest)

\* The name of a file never written to the frame directory.
Absent == [src |-> 0, swaps |-> <<>>]

----------------------------------------------------------------------------
\* The orchestrators.

\* Python truthiness of start_frame / end_frame: None and 0 are false.
Truthy(v) == v # None /\ v # 0

\* frame_files[a:b] for 0 <= a, b (0-based, b exclusive, clipped to the list).
Slice(s, a, b) ==
    LET hi == IF b < Len(s) THEN b ELSE Len(s)
    IN  IF a >= hi THEN <<>> ELSE [k \in 1..(hi - a) |-> s[a + k]]

\* sorted(... for fname in os.listdir(dir) if fname.endswith(one of exts)):
\* the listed files in name order.
RECURSIVE ListFrames(_, _)
ListFrames(exts, k) ==
    IF k > Len(files) THEN <<>>
    ELSE (IF files[k].ext \in exts THEN <<k>> ELSE <<>>) \o ListFrames(exts, k + 1)

\* swap_video_thread lists .jpg and .png (line 300), swap_video_cuda .png (365).
ThreadExts == {"jpg", "png"}
CudaExts == {"png"}

\* "if start_frame and end_frame: frame_files = frame_files[start:end]"
SelectedRange(full) ==
    IF Truthy(opts.start_frame) /\ Truthy(opts.end_frame)
    THEN Slice(full, opts.start_frame, opts.end_frame)
    ELSE full

\* "if start_frame: for f in full_frame_files[:start_frame]: out.write(imread(f))"
HeadFrames(full) ==
    IF Truthy(opts.start_frame)
    THEN [k \in 1..Len(Slice(full, 0, opts.start_frame)) |->
              imread(Slice(full, 0, opts.start_frame)[k])]
    ELSE <<>>

\* "if end_frame: for f in full_frame_files[end_frame:]: out.write(imread(f))"
TailFrames(full) ==
    IF Truthy(opts.end_frame)
    THEN [k \in 1..Len(Slice(full, opts.end_frame, Len(full))) |->
              imread(Slice(full, opts.end_frame, Len(full))[k])]
    ELSE <<>>

\* load(): the execution provider of the swap model.
SwapModelProvider ==
    IF env.cuda_provider
    THEN (IF env.device = "cuda" THEN "CUDAExecutionProvider" ELSE "CPUExecutionProvider")
    ELSE "CPUExecutionProvider"

\* swap_video, line 276: whether the sequential strategy is chosen.
\* os.environ.get('WUNJO_TORCH_DEVICE', 'cpu') is "cpu" when the variable is unset.
UseCuda ==
    /\ env.cuda_provider
    /\ env.torch_cuda
    /\ env.torch_device \notin {"unset", "cpu"}

NoCall ==
    [strategy |-> "none", via |-> "none", frame_files |-> <<>>,
     full_frame_files |-> <<>>, face_det_results |-> <<>>, out |-> <<>>, i |-> 0]

\* ThreadPoolExecutor(max_workers=4)
MaxWorkers == 4

IdlePool(progress) ==
    [task |-> <<>>, lock |-> None, read |-> <<>>, progress |-> progress]

\* What a finished call leaves behind for its caller; progress is
\* self.progress as the caller reads it when the call returns or raises.
Finished(c, outcome, calls) ==
    [strategy |-> c.strategy, via |-> c.via, out |-> c.out, outcome |-> outcome,
     calls |-> calls, full_frame_files |-> c.full_frame_files,
     frame_files |-> c.frame_files, face_det_results |-> c.face_det_results,
     progress |-> pool.progress]

\* "if video_format == '.mp4' ... elif video_format == '.avi' ... else: raise"
SupportedFormats == {".mp4", ".avi"}

\* Lines 294-317 / 361-382 and the call of the detector function: the state
\* on entry to the detection loop, or the IndexError of frame_files[0], or
\* the ValueError of the format test. swap_video_thread makes the directory
\* of the intermediate frames first of all (line 297); swap_video_cuda has
\* no such directory.
Enter(strategy, via) ==
    LET full == ListFrames(IF strategy = "thread" THEN ThreadExts ELSE CudaExts, 1)
        sel == SelectedRange(full)
        c == [NoCall EXCEPT !.strategy = strategy, !.via = via,
                            !.frame_files = sel, !.full_frame_files = full]
    IN  /\ pc = "idle"
        /\ calls_left > 0
        /\ calls_left' = calls_left - 1
        /\ frame_dir' = (frame_dir \/ strategy = "thread")
        /\ IF sel = <<>>
           THEN /\ runs' = Append(runs, Finished(c, "IndexError", {}))
                /\ UNCHANGED <<pc, call, trk>>
           ELSE IF opts.video_format \notin SupportedFormats
                THEN /\ runs' = Append(runs, Finished(c, "ValueError", {}))
                     /\ UNCHANGED <<pc, call, trk>>
                ELSE /\ pc' = "detect"
                     /\ call' = c
                     /\ trk' = IF opts.multiface
                               THEN [NoTrack EXCEPT !.image_files = sel]
                               ELSE TrackStart(sel, face_fields)
                     /\ UNCHANGED runs
        /\ log' = {}
        /\ UNCHANGED <<files, face_fields, similarface, opts, env, pool, disk,
                       sortio, peer>>

\* swap_video: dispatch on the accelerator.
SwapVideo == Enter(IF UseCuda THEN "cuda" ELSE "thread", "swap_video")

\* swap_video_thread called by the caller itself.
SwapVideoThread == Enter("thread", "direct")

\* swap_video_cuda called by the caller itself.
SwapVideoCuda == Enter("cuda", "direct")

\* One iteration of the loop of face_detect_with_alignment_crop.
TrackFrame ==
    /\ pc = "detect"
    /\ call.strategy = "track" \/ ~opts.multiface
    /\ trk.n < Len(trk.image_files)
    /\ trk' = TrackStep(trk)
    /\ log' = log \cup {DetectCall(trk.image_files[trk.n + 1])}
    /\ UNCHANGED <<files, face_fields, similarface, opts, env, pc, call, pool,
                   disk, frame_dir, peer, runs, calls_left, sortio>>

\* face_detect_with_alignment_all: every detected face of the frame.
DetectAllStep(t) ==
    LET dets == get_faces(t.image_files[t.n + 1])
    IN  [t EXCEPT !.predictions = Append(@, IF dets = <<>> THEN <<0>> ELSE dets),
                  !.n = @ + 1,
                  !.path = Append(@, "all")]

DetectAllFrame ==
    /\ pc = "detect"
    /\ call.strategy # "track" /\ opts.multiface
    /\ trk.n < Len(trk.image_files)
    /\ trk' = DetectAllStep(trk)
    /\ log' = log \cup {DetectCall(trk.image_files[trk.n + 1])}
    /\ UNCHANGED <<files, face_fields, similarface, opts, env, pc, call, pool,
                   disk, frame_dir, peer, runs, calls_left, sortio>>

\* face_detect_with_alignment_crop called on its own returns predictions.
TrackReturn ==
    /\ pc = "detect"
    /\ call.strategy = "track"
    /\ trk.n = Len(trk.image_files)
    /\ pc' = "returned"
    /\ call' = [call EXCEPT !.face_det_results = trk.predictions]
    /\ UNCHANGED <<files, face_fields, similarface, opts, env, trk, pool,
                   disk, frame_dir, peer, log, runs, calls_left, sortio>>

\* The end of a call: its record is kept, the instance is idle again.
\* self.progress is a field of the instance and outlives the call.
Finish(c, outcome) ==
    /\ runs' = Append(runs, Finished(c, outcome, log'))
    /\ pc' = "idle"
    /\ call' = NoCall
    /\ trk' = NoTrack

\* swap_video_thread, lines 325-335: the tracker has returned; the argument
\* list of executor.map is built in the caller's thread, reading
\* face_det_results[i] for every i in range(len(frame_files)), and the tasks
\* are queued.
ThreadSubmit ==
    /\ pc = "detect"
    /\ call.strategy = "thread"
    /\ trk.n = Len(trk.image_files)
    /\ log' = log
    /\ LET c == [call EXCEPT !.face_det_results = trk.predictions]
       IN  IF Len(c.face_det_results) < Len(c.frame_files)
           THEN /\ Finish(c, "IndexError")
                /\ UNCHANGED pool
           ELSE /\ pc' = "pool"
                /\ call' = c
                /\ pool' = [pool EXCEPT !.task = [k \in 1..Len(c.frame_files) |-> "queued"],
                                        !.read = [k \in 1..Len(c.frame_files) |-> 0]]
                /\ UNCHANGED <<trk, runs>>
    /\ UNCHANGED <<files, face_fields, similarface, opts, env, disk,
                   frame_dir, peer, calls_left, sortio>>

\* Tasks a worker thread is busy with.
Busy == {k \in 1..Len(pool.task) : pool.task[k] \in {"running", "saved", "locked"}}

\* A free worker takes the oldest queued task and enters process_frame.
StartTask(k) ==
    /\ pc = "pool"
    /\ k \in 1..Len(pool.task)
    /\ pool.task[k] = "queued"
    /\ \A j \in 1..(k - 1) : pool.task[j] # "queued"
    /\ Cardinality(Busy) < MaxWorkers
    /\ pool' = [pool EXCEPT !.task[k] = "running"]
    /\ UNCHANGED <<files, face_fields, similarface, opts, env, pc, call, trk,
                   disk, frame_dir, peer, log, runs, calls_left, sortio>>

\* process_frame, lines 258-269: gate, swap, cv2.imwrite of frame_<idx>.png.
SaveFrame(k) ==
    /\ pc = "pool"
    /\ k \in 1..Len(pool.task)
    /\ pool.task[k] = "running"
    /\ LET img == ProcessFrameImage(imread(call.frame_files[k]), call.face_det_results[k])
       IN  /\ disk' = [disk EXCEPT ![FrameName(k - 1)] = img]
           /\ log' = log \cup FrameCalls(img)
    /\ pool' = [pool EXCEPT !.task[k] = "saved"]
    /\ UNCHANGED <<files, face_fields, similarface, opts, env, pc, call, trk,
                   frame_dir, peer, runs, calls_left, sortio>>

\* "with self.lock": the lock is taken only when no thread holds it.
LockFree == pool.lock = None

\* process_frame, lines 270-271: enter "with self.lock" and read self.progress.
AcquireLock(k) ==
    /\ pc = "pool"
    /\ k \in 1..Len(pool.task)
    /\ pool.task[k] = "saved"
    /\ LockFree
    /\ pool' = [pool EXCEPT !.task[k] = "locked", !.lock = k, !.read[k] = pool.progress]
    /\ UNCHANGED <<files, face_fields, similarface, opts, env, pc, call, trk,
                   disk, frame_dir, peer, log, runs, calls_left, sortio>>

\* process_frame, lines 271-273: store self.progress, leave the lock, return.
ReleaseLock(k) ==
    /\ pc = "pool"
    /\ k \in 1..Len(pool.task)
    /\ pool.task[k] = "locked"
    /\ pool' = [pool EXCEPT !.task[k] = "done", !.lock = None,
                            !.progress = pool.read[k] + 1]
    /\ UNCHANGED <<files, face_fields, similarface, opts, env, pc, call, trk,
                   disk, frame_dir, peer, log, runs, calls_left, sortio>>

\* executor.map yields the returned names in task order.
ProcessedFrameFiles == [k \in 1..Len(pool.task) |-> FrameName(k - 1)]

\* swap_video_thread, lines 337-357: the pool is done; sort the names, write
\* the head frames, the processed frames read back from disk, the tail frames.
ThreadWrite ==
    /\ pc = "pool"
    /\ \A k \in 1..Len(pool.task) : pool.task[k] = "done"
    /\ log' = log
    /\ LET sorted == SortNames(ProcessedFrameFiles)
           body == [k \in 1..Len(sorted) |-> disk[sorted[k]]]
       IN  Finish([call EXCEPT !.out = HeadFrames(call.full_frame_files) \o body
                                         \o TailFrames(call.full_frame_files)], "ok")
    /\ pool' = IdlePool(pool.progress)
    /\ UNCHANGED <<files, face_fields, similarface, opts, env, disk,
                   frame_dir, peer, calls_left, sortio>>

\* Mutant: the sequential loop starts as soon as the first selection exists,
\* with the selections made so far.
CudaHead_Early ==
    /\ pc = "detect"
    /\ call.strategy = "cuda"
    /\ trk.n >= 1
    /\ pc' = "seq"
    /\ call' = [call EXCEPT !.face_det_results = trk.predictions,
                            !.out = HeadFrames(call.full_frame_files)]
    /\ UNCHANGED <<files, face_fields, similarface, opts, env, trk, pool,
                   disk, frame_dir, peer, log, runs, calls_left, sortio>>

\* swap_video_cuda, lines 390-399: the tracker has returned; the head frames
\* are written.
CudaHead ==
    /\ pc = "detect"
    /\ call.strategy = "cuda"
    /\ trk.n = Len(trk.image_files)
    /\ pc' = "seq"
    /\ call' = [call EXCEPT !.face_det_results = trk.predictions,
                            !.out = HeadFrames(call.full_frame_files)]
    /\ UNCHANGED <<files, face_fields, similarface, opts, env, trk, pool,
                   disk, frame_dir, peer, log, runs, calls_left, sortio>>

\* swap_video_cuda, lines 401-412: one iteration of
\* "for i, dets in enumerate(face_det_results)".
CudaFrame ==
    /\ pc = "seq"
    /\ call.i < Len(call.face_det_results)
    /\ LET img == CudaFrameImage(imread(call.frame_files[call.i + 1]),
                                 call.face_det_results[call.i + 1])
       IN  /\ call' = [call EXCEPT !.out = Append(@, img), !.i = @ + 1]
           /\ log' = log \cup FrameCalls(img)
    /\ UNCHANGED <<files, face_fields, similarface, opts, env, pc, trk, pool,
                   disk, frame_dir, peer, runs, calls_left, sortio>>

\* swap_video_cuda, lines 414-424: the tail frames, out.release().
CudaFinish ==
    /\ pc = "seq"
    /\ call.i = Len(call.face_det_results)
    /\ log' = log
    /\ Finish([call EXCEPT !.out = @ \o TailFrames(call.full_frame_files)], "ok")
    /\ UNCHANGED <<files, face_fields, similarface, opts, env, pool, disk,
                   frame_dir, peer, calls_left, sortio>>

\* Two callers, each with its own FaceSwapDeepfake instance and its own call
\* arguments, run in two threads of one process on the same target directory
\* and the same save_path. The variables face_fields ... calls_left are those
\* of the thread that takes the next step; peer holds those of the other
\* thread. The scheduler passes control to the other thread between any two
\* steps. files, env, disk and frame_dir belong to the process and the file
\* system and are common to both.
Switch ==
    /\ peer' = [face_fields |-> face_fields, opts |-> opts, pc |-> pc,
                call |-> call, trk |-> trk, pool |-> pool, log |-> log,
                runs |-> runs, calls_left |-> calls_left]
    /\ face_fields' = peer.face_fields
    /\ opts' = peer.opts
    /\ pc' = peer.pc
    /\ call' = peer.call
    /\ trk' = peer.trk
    /\ pool' = peer.pool
    /\ log' = peer.log
    /\ runs' = peer.runs
    /\ calls_left' = peer.calls_left
    /\ UNCHANGED <<files, similarface, env, disk, frame_dir, sortio>>

----------------------------------------------------------------------------
\* swap_image.

\* abs((x1 + x2) / 2 - x_center) + abs((y1 + y2) / 2 - y_center), doubled.
Abs(v) == IF v < 0 THEN 0 - v ELSE v
CropDistance(f, c) ==
    Abs(Bbox(f)[1] + Bbox(f)[3] - 2 * c[1]) + Abs(Bbox(f)[2] + Bbox(f)[4] - 2 * c[2])

\* Lines 441-456: the face the selector picks: the first whose box holds the
\* centre, else min(range(len(distances)), key=distances.__getitem__).
CropFace(dets, c) ==
    LET inside == {k \in 1..Len(dets) : Contains(Bbox(dets[k]), c[1], c[2])}
        nearest == Min({k \in 1..Len(dets) :
                          \A o \in 1..Len(dets) :
                              CropDistance(dets[k], c) <= CropDistance(dets[o], c)})
    IN  IF inside # {} THEN dets[Min(inside)] ELSE dets[nearest]

\* Finished calls of swap_image.
ImageRuns == {k \in 1..Len(runs) : runs[k].strategy = "image"}

\* Mutant: the centre of the face swapped last is kept on the instance and
\* takes the place of the selector in the next call.
ImageSelection_Cached(dets, c, multiface) ==
    LET prev == {k \in ImageRuns : runs[k].face_det_results # <<>>}
        last == runs[Max(prev)].face_det_results[1]
        c2 == IF prev = {} THEN c ELSE get_center(last[Len(last)])
    IN  IF c2[1] = None \/ c2[2] = None \/ multiface THEN dets ELSE <<CropFace(dets, c2)>>

\* The faces swap_image pastes over a safe frame with detections dets.
ImageSelection(dets, c, multiface) ==
    IF c[1] = None \/ c[2] = None \/ multiface THEN dets ELSE <<CropFace(dets, c)>>

\* swap_image(target_frame = the image of file, ...) as one step.
SwapImage(file) ==
    /\ pc = "idle"
    /\ calls_left > 0
    /\ calls_left' = calls_left - 1
    /\ file \in 1..Len(files)
    /\ LET frame == imread(file)
           c == get_real_crop_box(ImgShape, face_fields)
           dets == get_faces(file)
           gate == [op |-> "gate", src |-> file, face |-> 0]
           base == [NoCall EXCEPT !.strategy = "image", !.via = "direct",
                                  !.frame_files = <<file>>,
                                  !.full_frame_files = <<file>>]
       IN  IF ~status(frame)
           THEN runs' = Append(runs, Finished([base EXCEPT !.out = <<frame>>], "ok", {gate}))
           ELSE IF dets = <<>>
                THEN runs' = Append(runs, Finished(base, "FaceNotDetectedError",
                                                   {gate, DetectCall(file)}))
                ELSE LET sel == ImageSelection(dets, c, opts.multiface)
                         img == SwapFaces(frame, sel, 1)
                     IN  runs' = Append(runs,
                            Finished([base EXCEPT !.out = <<img>>, !.face_det_results = <<sel>>],
                                     "ok", FrameCalls(img) \cup {DetectCall(file)}))
    /\ UNCHANGED <<files, face_fields, similarface, opts, env, pc, call, trk,
                   pool, disk, frame_dir, peer, log, sortio>>

----------------------------------------------------------------------------
\* processed_frame_files.sort() on two names: does the name of frame i sort
\* before the name of frame j ?

NoSort == [i |-> 0, j |-> 0, state |-> "off", less |-> FALSE]

CompareNames ==
    /\ sortio.state = "in"
    /\ sortio' = [sortio EXCEPT !.state = "out",
                                !.less = StrLess(FrameName(sortio.i), FrameName(sortio.j))]
    /\ UNCHANGED <<files, face_fields, similarface, opts, env, pc, call, trk,
                   pool, disk, frame_dir, peer, log, runs, calls_left>>

----------------------------------------------------------------------------
\* Initial states.

\* A frame file: what the detector and the safety filter say of it, and the
\* extension of its name.
Frame(dets, safe, ext) == [dets |-> dets, safe |-> safe, ext |-> ext]

\* The selector: a unit square at (x, y) on a 4 x 4 canvas.
Fields(x, y) == [x |-> x, y |-> y, canvasWidth |-> 4, canvasHeight |-> 4]

SeqsUpTo(S, n) == UNION {[1..m -> S] : m \in 1..n}

\* start_frame / end_frame a caller may pass for a video of n frames.
Ranges(n) ==
    {r \in [start_frame : {None} \cup 0..(n - 1), end_frame : {None} \cup 1..n] :
        r.start_frame = None \/ r.end_frame = None \/ r.start_frame < r.end_frame}

CpuEnv ==
    [device |-> "cpu", cuda_provider |-> FALSE, torch_cuda |-> FALSE,
     torch_device |-> "unset"]

Envs ==
    [device : {"cpu", "cuda"}, cuda_provider : BOOLEAN, torch_cuda : BOOLEAN,
     torch_device : {"unset", "cpu", "cuda"}]

DiskNames == {FrameName(i) : i \in 0..MaxFrames}

\* A second caller that makes no call.
NoPeer ==
    [face_fields |-> NoFields,
     opts |-> [multiface |-> FALSE, start_frame |-> None, end_frame |-> None,
               video_format |-> ".mp4"],
     pc |-> "idle", call |-> NoCall, trk |-> NoTrack, pool |-> IdlePool(0),
     log |-> {}, runs |-> <<>>, calls_left |-> 0]

\* A fresh instance, no call made yet.
InitInstance ==
    /\ pc = "idle"
    /\ call = NoCall
    /\ trk = NoTrack
    /\ pool = IdlePool(0)
    /\ disk = [nm \in DiskNames |-> Absent]
    /\ frame_dir = FALSE
    /\ log = {}
    /\ runs = <<>>
    /\ sortio = NoSort
    /\ peer = NoPeer

InitOpts(ranges, multifaces) ==
    \E r \in ranges, m \in multifaces :
        opts = [multiface |-> m, start_frame |-> r.start_frame,
                end_frame |-> r.end_frame, video_format |-> ".mp4"]

\* One orchestrator call on a fresh instance: frames with two faces of the
\* same person, safe or unsafe; every range, both multiface and similarface
\* settings.
VideoFrames == {Frame(<<1, 4>>, TRUE, "png"), Frame(<<1, 4>>, FALSE, "png")}

Init ==
    /\ files \in SeqsUpTo(VideoFrames, MaxFrames)
    /\ face_fields = NoFields
    /\ similarface \in BOOLEAN
    /\ InitOpts(Ranges(Len(files)), BOOLEAN)
    /\ env = CpuEnv
    /\ calls_left = 1
    /\ InitInstance

\* The steps of a call once it is entered.
Run ==
    \/ TrackFrame
    \/ DetectAllFrame
    \/ ThreadSubmit
    \/ \E k \in 1..MaxFrames : StartTask(k)
    \/ \E k \in 1..MaxFrames : SaveFrame(k)
    \/ \E k \in 1..MaxFrames : AcquireLock(k)
    \/ \E k \in 1..MaxFrames : ReleaseLock(k)
    \/ ThreadWrite
    \/ CudaHead
    \/ CudaFrame
    \/ CudaFinish

\* The caller calls one of the orchestrators itself.
Next ==
    \/ SwapVideoThread
    \/ SwapVideoCuda
    \/ \E f \in 1..MaxFrames : SwapImage(f)
    \/ Run

Spec == Init /\ [][Next]_vars

----------------------------------------------------------------------------
\* The tracker on its own: face_detect_with_alignment_crop(image_files,
\* face_fields) over every file of the directory.

TrackDets ==
    {<<>>, <<1>>, <<2>>, <<3>>, <<4>>,
     <<1, 4>>, <<4, 1>>, <<2, 1>>, <<2, 3>>, <<3, 4>>, <<2, 4>>, <<4, 2>>}

TrackFramesSet == {Frame(d, TRUE, "png") : d \in TrackDets}

\* Selectors: none; one inside the boxes of faces 1 and 4; one inside no box
\* and near faces 2 and 4; one inside no box and near no face.
TrackFields == {NoFields, Fields(0, 0), Fields(1, 2), Fields(0, 3)}

InitTrack ==
    /\ files \in SeqsUpTo(TrackFramesSet, MaxFrames)
    /\ face_fields \in TrackFields
    /\ similarface \in BOOLEAN
    /\ InitOpts({[start_frame |-> None, end_frame |-> None]}, {FALSE})
    /\ env = CpuEnv
    /\ calls_left = 0
    /\ pc = "detect"
    /\ call = [NoCall EXCEPT !.strategy = "track", !.via = "direct",
                             !.frame_files = [k \in 1..Len(files) |-> k],
                             !.full_frame_files = [k \in 1..Len(files) |-> k]]
    /\ trk = TrackStart([k \in 1..Len(files) |-> k], face_fields)
    /\ pool = IdlePool(0)
    /\ disk = [nm \in DiskNames |-> Absent]
    /\ frame_dir = FALSE
    /\ log = {}
    /\ runs = <<>>
    /\ sortio = NoSort
    /\ peer = NoPeer

NextTrack == TrackFrame \/ TrackReturn

SpecTrack == InitTrack /\ [][NextTrack]_vars

----------------------------------------------------------------------------
\* swap_video on instances built for every device and environment.

InitDevice ==
    /\ files \in SeqsUpTo({Frame(<<1>>, TRUE, "png")}, MaxFrames)
    /\ face_fields = NoFields
    /\ similarface = FALSE
    /\ InitOpts({[start_frame |-> None, end_frame |-> None]}, BOOLEAN)
    /\ env \in Envs
    /\ calls_left = 1
    /\ InitInstance

NextDevice == SwapVideo \/ Run

SpecDevice == InitDevice /\ [][NextDevice]_vars

----------------------------------------------------------------------------
\* Several calls, one after the other, on one instance and one directory.

PairFrames ==
    {Frame(<<1>>, TRUE, "png"), Frame(<<1>>, TRUE, "jpg"), Frame(<<1, 4>>, TRUE, "png")}

InitPair ==
    /\ files \in SeqsUpTo(PairFrames, MaxFrames)
    /\ face_fields \in {NoFields, Fields(0, 0)}
    /\ similarface = FALSE
    /\ InitOpts({[start_frame |-> None, end_frame |-> None]}, BOOLEAN)
    /\ env = CpuEnv
    /\ calls_left = MaxRuns
    /\ InitInstance

SpecPair == InitPair /\ [][Next]_vars

----------------------------------------------------------------------------
\* The video orchestrators called with every container format.

\* video_format values a caller may pass: the two the code knows, and others.
Formats == {".mp4", ".avi", ".mkv", ""}

InitFormat ==
    /\ files \in SeqsUpTo({Frame(<<1>>, TRUE, "png"), Frame(<<>>, TRUE, "png")}, MaxFrames)
    /\ face_fields = NoFields
    /\ similarface = FALSE
    /\ opts \in [multiface : BOOLEAN, start_frame : {None}, end_frame : {None},
                 video_format : Formats]
    /\ env = CpuEnv
    /\ calls_left = 1
    /\ InitInstance

NextFormat == SwapVideoThread \/ SwapVideoCuda \/ Run

SpecFormat == InitFormat /\ [][NextFormat]_vars

----------------------------------------------------------------------------
\* Frames in which the detector finds nothing, next to frames with a face:
\* one call of swap_image or of a video orchestrator on a fresh instance.

MissFrames ==
    {Frame(<<>>, TRUE, "png"), Frame(<<>>, FALSE, "png"), Frame(<<1>>, TRUE, "png")}

\* Selectors: none; one inside the box of face 1; one inside no box and near
\* no face.
MissFields == {NoFields, Fields(0, 0), Fields(0, 3)}

InitMiss ==
    /\ files \in SeqsUpTo(MissFrames, MaxFrames)
    /\ face_fields \in MissFields
    /\ similarface = FALSE
    /\ InitOpts({[start_frame |-> None, end_frame |-> None]}, BOOLEAN)
    /\ env = CpuEnv
    /\ calls_left = 1
    /\ InitInstance

SpecMiss == InitMiss /\ [][Next]_vars

----------------------------------------------------------------------------
\* One frame, every detection list and selector: several calls of swap_image
\* and of the video orchestrators, one after the other, on one instance.

ImageFrames == {Frame(d, s, "png") : d \in TrackDets, s \in BOOLEAN}

InitImage ==
    /\ files \in [1..1 -> ImageFrames]
    /\ face_fields \in TrackFields
    /\ similarface = FALSE
    /\ InitOpts({[start_frame |-> None, end_frame |-> None]}, BOOLEAN)
    /\ env = CpuEnv
    /\ calls_left = MaxRuns
    /\ InitInstance

SpecImage == InitImage /\ [][Next]_vars

----------------------------------------------------------------------------
\* Two concurrent calls of swap_video_thread with one save_path: each caller
\* has a fresh instance and makes one call on the same frames, with its own
\* multiface argument.

InitShared ==
    /\ files \in SeqsUpTo({Frame(<<1, 4>>, TRUE, "png")}, MaxFrames)
    /\ face_fields = NoFields
    /\ similarface = FALSE
    /\ InitOpts({[start_frame |-> None, end_frame |-> None]}, BOOLEAN)
    /\ env = CpuEnv
    /\ calls_left = 1
    /\ pc = "idle"
    /\ call = NoCall
    /\ trk = NoTrack
    /\ pool = IdlePool(0)
    /\ disk = [nm \in DiskNames |-> Absent]
    /\ frame_dir = FALSE
    /\ log = {}
    /\ runs = <<>>
    /\ sortio = NoSort
    /\ \E m \in BOOLEAN :
          peer = [NoPeer EXCEPT !.opts.multiface = m, !.calls_left = 1]

\* The steps of a call of swap_video_thread once it is entered.
RunThread ==
    \/ TrackFrame
    \/ DetectAllFrame
    \/ ThreadSubmit
    \/ \E k \in 1..MaxFrames : StartTask(k)
    \/ \E k \in 1..MaxFrames : SaveFrame(k)
    \/ \E k \in 1..MaxFrames : AcquireLock(k)
    \/ \E k \in 1..MaxFrames : ReleaseLock(k)
    \/ ThreadWrite

NextShared == SwapVideoThread \/ RunThread \/ Switch

SpecShared == InitShared /\ [][NextShared]_vars

----------------------------------------------------------------------------
\* The order of the intermediate file names.

\* Frame indices around every change of the number of digits.
SortSamples ==
    {0, 1, 2, 9, 10, 11, 99, 100, 101, 999, 1000, 1001, 9998, 9999, 10000, 10001}

InitSort ==
    /\ files = <<Frame(<<1>>, TRUE, "png")>>
    /\ face_fields = NoFields
    /\ similarface = FALSE
    /\ InitOpts({[start_frame |-> None, end_frame |-> None]}, {FALSE})
    /\ env = CpuEnv
    /\ calls_left = 0
    /\ pc = "idle"
    /\ call = NoCall
    /\ trk = NoTrack
    /\ pool = IdlePool(0)
    /\ disk = [nm \in DiskNames |-> Absent]
    /\ frame_dir = FALSE
    /\ log = {}
    /\ runs = <<>>
    /\ \E i \in SortSamples, j \in SortSamples :
           /\ i < j
           /\ sortio = [i |-> i, j |-> j, state |-> "in", less |-> FALSE]
    /\ peer = NoPeer

NextSort == CompareNames

SpecSort == InitSort /\ [][NextSort]_vars

----------------------------------------------------------------------------
\* Properties.

Range(s) == {s[k] : k \in DOMAIN s}

\* The tracker is running or has returned from a call of its own.
Tracking == call.strategy = "track"

\* The face accepted last: the last face of the last non-empty selection.
LastAccepted(t) ==
    LET taken == {k \in 1..Len(t.predictions) : t.predictions[k] # <<0>>}
        sel == t.predictions[Max(taken)]
    IN  sel[Len(sel)]

\* C1 as claimed: in a frame handled with a non-empty embedding history, a
\* face examined up to and including the first accepted one is in the frame's
\* selection if and only if its embedding is similar to a history entry and
\* its box holds the centre of the last accepted face or its gender is that
\* of the last accepted face.
C1_WarmAcceptanceRule ==
    [][(/\ Tracking
        /\ pc = "detect"
        /\ trk.n < Len(trk.image_files)
        /\ trk'.n = trk.n + 1
        /\ Branch(trk, get_faces(trk.image_files[trk.n + 1])) = "warm")
       => LET dets == get_faces(trk.image_files[trk.n + 1])
              sel == trk'.predictions[Len(trk'.predictions)]
              taken == {i \in 1..Len(dets) : dets[i] \in Range(sel)}
              examined == IF taken = {} THEN 1..Len(dets) ELSE 1..Min(taken)
              centre == get_center(LastAccepted(trk))
          IN  \A i \in examined :
                  (i \in taken) <=>
                      /\ is_similar_face(Emb(dets[i]), trk.face_embedding_list)
                      /\ \/ Contains(Bbox(dets[i]), centre[1], centre[2])
                         \/ Gender(dets[i]) = Gender(LastAccepted(trk))]_vars

\* C3 as claimed: the tracker holds exactly one selection per frame it has
\* processed, and returns one per input frame.
C3_OneSelectionPerFrame ==
    Tracking =>
        /\ Len(trk.predictions) = trk.n
        /\ pc = "returned" => Len(call.face_det_results) = Len(trk.image_files)

\* C9: without a selector the first frame with detections yields the
\* selection [first detected face], every frame before it an empty selection;
\* right after that frame the centre, gender and history are those of that
\* face; every later frame with detections takes the warm branch.
C9_ColdStartNoSelector ==
    (Tracking /\ face_fields = NoFields) =>
        LET seen == {k \in 1..trk.n : get_faces(trk.image_files[k]) # <<>>}
        IN  IF seen = {}
            THEN /\ trk.face_embedding_list = <<>>
                 /\ trk.x_center = None /\ trk.y_center = None
            ELSE LET f == Min(seen)
                     face == get_faces(trk.image_files[f])[1]
                 IN  /\ Len(trk.predictions) = trk.n
                     /\ \A k \in 1..(f - 1) : trk.predictions[k] = <<0>>
                     /\ trk.predictions[f] = <<face>>
                     /\ trk.path[f] = "first"
                     /\ trk.face_embedding_list[1] = Emb(face)
                     /\ trk.n = f =>
                            /\ trk.x_center = get_center(face)[1]
                            /\ trk.y_center = get_center(face)[2]
                            /\ trk.face_gender = Gender(face)
                            /\ trk.face_embedding_list = <<Emb(face)>>
                     /\ \A k \in seen : k > f => trk.path[k] = "warm"

\* C9 witness: no selector, a frame without faces, then a frame with two
\* faces adopted through its first one, then a warm frame.
C9_Witness ==
    /\ Tracking /\ face_fields = NoFields
    /\ trk.n = 3
    /\ trk.path = <<"none", "first", "warm">>
    /\ get_faces(2) = <<4, 1>>
    /\ trk.predictions[2] = <<4>>

\* C10: with a selector whose pixel centre lies in the box of a face of frame
\* 0, the selection of frame 0 is exactly the first such face in detector
\* order, and the centre, gender and history are seeded from it.
C10_ColdStartWithSelector ==
    (Tracking /\ face_fields # NoFields /\ trk.n >= 1) =>
        LET c == get_real_crop_box(ImgShape, face_fields)
            dets == get_faces(trk.image_files[1])
            inside == {k \in 1..Len(dets) : Contains(Bbox(dets[k]), c[1], c[2])}
        IN  inside # {} =>
                LET face == dets[Min(inside)]
                IN  /\ trk.predictions[1] = <<face>>
                    /\ trk.face_embedding_list[1] = Emb(face)
                    /\ trk.n = 1 =>
                           /\ trk.x_center = get_center(face)[1]
                           /\ trk.y_center = get_center(face)[2]
                           /\ trk.face_gender = Gender(face)
                           /\ trk.face_embedding_list = <<Emb(face)>>

\* C10 witness: the selector centre (1, 1) lies in the boxes of faces 4 and
\* 1, detected in that order after nothing else; face 4 is adopted.
C10_Witness ==
    /\ Tracking /\ face_fields = Fields(0, 0)
    /\ trk.n = 1
    /\ get_faces(1) = <<4, 1>>
    /\ trk.predictions = <<(<<4>>)>>
    /\ trk.face_gender = "M"

\* Finished runs of a video orchestrator.
VideoRuns == {k \in 1..Len(runs) : runs[k].strategy \in {"thread", "cuda"}}

\* C2 as claimed: a video run writes exactly as many frames as the input has,
\* each input frame once.
C2_OutputFrameCount ==
    \A k \in VideoRuns :
        /\ Len(runs[k].out) = Len(runs[k].full_frame_files)
        /\ \A a, b \in 1..Len(runs[k].out) :
               runs[k].out[a].src = runs[k].out[b].src => a = b

\* Position p (1-based) of the input lies outside the range the options give.
OutsideRange(p) ==
    \/ opts.start_frame # None /\ p - 1 < opts.start_frame
    \/ opts.end_frame # None /\ p - 1 >= opts.end_frame

\* C7 as claimed: once a video run has finished, every input frame outside
\* the range is in the output at its own position, unmodified, and no
\* detector, gate or swap call was made on it; every frame inside the range
\* was passed to the detector.
C7_BoundaryFrames ==
    \A k \in VideoRuns :
        LET r == runs[k]
        IN  r.outcome = "ok" =>
                \A p \in 1..Len(r.full_frame_files) :
                    IF OutsideRange(p)
                    THEN /\ p <= Len(r.out)
                         /\ r.out[p] = imread(r.full_frame_files[p])
                         /\ \A c \in r.calls : c.src # r.full_frame_files[p]
                    ELSE DetectCall(r.full_frame_files[p]) \in r.calls

\* An image an unsafe frame may turn into: itself.
Gated(img) == ~files[img.src].safe => img.swaps = <<>>

\* C5: the swap model is never called on a frame the safety filter reports
\* unsafe, and every frame produced from such a frame (saved by a worker,
\* written to the output, returned by swap_image) is the frame as read.
C5_ContentGate ==
    /\ \A c \in log : c.op = "swap" => files[c.src].safe
    /\ \A nm \in DOMAIN disk : disk[nm] = Absent \/ Gated(disk[nm])
    /\ \A p \in 1..Len(call.out) : Gated(call.out[p])
    /\ \A k \in 1..Len(runs) :
           /\ \A c \in runs[k].calls : c.op = "swap" => files[c.src].safe
           /\ \A p \in 1..Len(runs[k].out) : Gated(runs[k].out[p])

\* C5 witness: a finished threaded run in which an unsafe frame with a
\* non-empty selection went out as read, next to a safe frame that was swapped.
C5_Witness ==
    \E k \in 1..Len(runs) :
        LET r == runs[k]
        IN  /\ r.strategy = "thread"
            /\ r.outcome = "ok"
            /\ \E p, q \in 1..Len(r.frame_files) :
                   /\ ~files[r.frame_files[p]].safe
                   /\ r.face_det_results[p] # <<0>>
                   /\ imread(r.frame_files[p]) \in Range(r.out)
                   /\ files[r.frame_files[q]].safe
                   /\ \E img \in Range(r.out) :
                          img.src = r.frame_files[q] /\ img.swaps # <<>>

\* C6 as claimed: on the same directory and options a finished threaded run
\* and a finished sequential run processed the same frames and wrote the same
\* output.
C6_StrategyEquivalence ==
    \A a, b \in VideoRuns :
        (runs[a].strategy = "thread" /\ runs[b].strategy = "cuda") =>
            /\ runs[a].frame_files = runs[b].frame_files
            /\ runs[a].outcome = runs[b].outcome
            /\ runs[a].out = runs[b].out

\* C8 as claimed: when the swap model is loaded on the accelerator, a call of
\* swap_video never takes the thread pool, no two workers are inside the
\* gate / swap section at once, and the strategy is the sequential one
\* exactly when the model is on the accelerator.
C8_AcceleratorExclusivity ==
    call.via = "swap_video" =>
        /\ SwapModelProvider = "CUDAExecutionProvider" =>
               /\ call.strategy # "thread"
               /\ Cardinality({k \in 1..Len(pool.task) : pool.task[k] = "running"}) <= 1
        /\ call.strategy = "cuda" <=> SwapModelProvider = "CUDAExecutionProvider"

\* C4 as claimed, on the names: for frame indices i < j the name of frame i
\* sorts before the name of frame j, so that the sorted list of names is in
\* ascending frame order.
C4_SortedNamesAscending ==
    sortio.state = "out" => sortio.less

\* C11 as claimed: a video orchestrator called with a container format other
\* than '.mp4' and '.avi' ends in an error with no detector, gate or swap
\* call made, no output frame written, no intermediate frame saved and no
\* directory of intermediate frames created.
C11_UnsupportedFormat ==
    opts.video_format \notin SupportedFormats =>
        /\ pc = "idle"
        /\ log = {}
        /\ \A nm \in DOMAIN disk : disk[nm] = Absent
        /\ \A k \in VideoRuns :
               /\ runs[k].outcome \in {"ValueError", "IndexError"}
               /\ runs[k].calls = {}
               /\ runs[k].out = <<>>
        /\ ~frame_dir

\* The frame a call of swap_image was given.
ImageFile(r) == r.frame_files[1]

\* The video half of C12: a detection step on a frame without faces appends
\* the empty selection for it, raises nothing and leaves the loop running.
MissStep ==
    (/\ pc = "detect"
     /\ trk.n < Len(trk.image_files)
     /\ trk'.n = trk.n + 1
     /\ get_faces(trk.image_files[trk.n + 1]) = <<>>)
    => /\ trk'.predictions = Append(trk.predictions, <<0>>)
       /\ pc' = "detect"
       /\ runs' = runs

\* C12 as claimed: swap_image on a frame with zero detected faces raises
\* FaceNotDetectedError and persists nothing; a video detection step on such a
\* frame never raises and yields an empty selection, the loop going on.
C12_DetectionMissAsClaimed ==
    /\ [](\A k \in ImageRuns :
             get_faces(ImageFile(runs[k])) = <<>> =>
                 /\ runs[k].outcome = "FaceNotDetectedError"
                 /\ runs[k].out = <<>>)
    /\ [][MissStep]_vars

\* C12 amended: swap_image on a frame that passes the content gate and has
\* zero detected faces raises FaceNotDetectedError and persists nothing; on a
\* frame the gate rejects it raises nothing, never calls the detector and
\* persists the frame as read; the video half as claimed.
C12_DetectionMiss ==
    /\ [](\A k \in ImageRuns :
             LET r == runs[k]
                 f == ImageFile(r)
             IN  /\ (files[f].safe /\ get_faces(f) = <<>>) =>
                        /\ r.outcome = "FaceNotDetectedError"
                        /\ r.out = <<>>
                 /\ ~files[f].safe =>
                        /\ r.outcome = "ok"
                        /\ r.out = <<imread(f)>>
                        /\ DetectCall(f) \notin r.calls)
    /\ [][MissStep]_vars

\* C12 witness: swap_image has raised FaceNotDetectedError on a safe frame
\* without faces, nothing persisted.
C12_Witness ==
    \E k \in ImageRuns :
        /\ files[ImageFile(runs[k])].safe
        /\ get_faces(ImageFile(runs[k])) = <<>>
        /\ runs[k].outcome = "FaceNotDetectedError"
        /\ runs[k].out = <<>>

TrackStepOn(b) ==
    /\ Tracking
    /\ pc = "detect"
    /\ trk.n < Len(trk.image_files)
    /\ trk'.n = trk.n + 1
    /\ Branch(trk, get_faces(trk.image_files[trk.n + 1])) = b

\* currentCenter, currentGender and embeddingHistory are left as they were.
TrackStateKept ==
    /\ trk'.x_center = trk.x_center
    /\ trk'.y_center = trk.y_center
    /\ trk'.face_gender = trk.face_gender
    /\ trk'.face_embedding_list = trk.face_embedding_list

\* C14 as claimed: a warm frame with detections of which none is accepted
\* gets the empty selection and leaves the centre, the gender and the
\* embedding history as they were before the frame.
C14_ZeroAcceptedKeepsState ==
    [][(/\ TrackStepOn("warm")
        /\ trk'.predictions = Append(trk.predictions, <<0>>))
       => TrackStateKept]_vars

\* Faces of dets whose centre is nearest to (x, y), and their squared distance.
Nearest(dets, x, y) ==
    {k \in 1..Len(dets) :
        \A o \in 1..Len(dets) :
            euclidean_distance(<<x, y>>, get_center(dets[k]))
                <= euclidean_distance(<<x, y>>, get_center(dets[o]))}

\* C15 as claimed: a cold frame with a selector whose centre no detected box
\* contains adopts, on frame 0 only, the lowest-index nearest face when its
\* distance is strictly below 35% of the diagonal, seeding the state from
\* it; otherwise the frame gets the empty selection and the centre, gender
\* and history stay as they were.
C15_ColdStartFallback ==
    [][TrackStepOn("cold") =>
          LET dets == get_faces(trk.image_files[trk.n + 1])
              inside == {k \in 1..Len(dets) :
                           Contains(Bbox(dets[k]), trk.x_center, trk.y_center)}
              k0 == Min(Nearest(dets, trk.x_center, trk.y_center))
              near == euclidean_distance(<<trk.x_center, trk.y_center>>,
                                         get_center(dets[k0]))
          IN  inside = {} =>
                  IF trk.n = 0 /\ near < get_min_distance(ImgShape)
                  THEN /\ trk'.predictions = Append(trk.predictions, <<dets[k0]>>)
                       /\ trk'.x_center = get_center(dets[k0])[1]
                       /\ trk'.y_center = get_center(dets[k0])[2]
                       /\ trk'.face_gender = Gender(dets[k0])
                       /\ trk'.face_embedding_list = <<Emb(dets[k0])>>
                  ELSE /\ trk'.predictions = Append(trk.predictions, <<0>>)
                       /\ TrackStateKept]_vars

\* C16 as claimed: a detection step on a frame without faces appends the
\* empty selection and leaves the centre, the gender and the history as they
\* were; once a video run has returned, every frame of the range without
\* faces is in the output at its own position as read, and its selection is
\* the empty one.
C16_NoDetections ==
    /\ [][(/\ pc = "detect"
           /\ ~opts.multiface
           /\ trk.n < Len(trk.image_files)
           /\ trk'.n = trk.n + 1
           /\ get_faces(trk.image_files[trk.n + 1]) = <<>>)
          => /\ trk'.predictions = Append(trk.predictions, <<0>>)
             /\ TrackStateKept]_vars
    /\ [](\A k \in VideoRuns :
             LET r == runs[k]
             IN  r.outcome = "ok" =>
                     \A p \in 1..Len(r.frame_files) :
                         get_faces(r.frame_files[p]) = <<>> =>
                             /\ p <= Len(r.out)
                             /\ r.out[p] = imread(r.frame_files[p])
                             /\ r.face_det_results[p] = <<0>>)

\* The warm frame as C17 and C1 state it: the faces are taken in detector
\* order; a face is accepted when its embedding is similar to a history
\* entry and its box holds the current centre or its gender is the current
\* one; an accepted face becomes the current centre and gender and is
\* appended to the history before the next face is looked at; in single mode
\* the frame ends at the first accepted face.
\* st = [c, g, h]: centre, gender, history; sel: the faces accepted so far.
RECURSIVE ClaimedWarm(_, _, _, _)
ClaimedWarm(dets, k, st, sel) ==
    IF k > Len(dets)
    THEN [st |-> st, sel |-> sel]
    ELSE LET f == dets[k]
             ok == /\ is_similar_face(Emb(f), st.h)
                   /\ \/ Contains(Bbox(f), st.c[1], st.c[2])
                      \/ Gender(f) = st.g
             st2 == [c |-> get_center(f), g |-> Gender(f), h |-> st.h \o <<Emb(f)>>]
         IN  IF ok
             THEN IF ~similarface
                  THEN [st |-> st2, sel |-> Append(sel, f)]
                  ELSE ClaimedWarm(dets, k + 1, st2, Append(sel, f))
             ELSE ClaimedWarm(dets, k + 1, st, sel)

\* C17 as claimed: a warm frame's selection is, in single mode, the first
\* face in detector order that satisfies the acceptance rule and nothing
\* else, in multiple mode every accepted face in detector order; the centre,
\* gender and history after the frame are those left by the accepted faces,
\* no face after the last accepted one having touched them.
C17_SingleVsMultiple ==
    [][TrackStepOn("warm") =>
          LET dets == get_faces(trk.image_files[trk.n + 1])
              res == ClaimedWarm(dets, 1,
                                 [c |-> get_center(LastAccepted(trk)),
                                  g |-> trk.face_gender,
                                  h |-> trk.face_embedding_list], <<>>)
          IN  /\ trk'.predictions =
                     Append(trk.predictions, IF res.sel = <<>> THEN <<0>> ELSE res.sel)
              /\ ~similarface => Len(trk'.predictions[Len(trk'.predictions)]) = 1
              /\ res.sel # <<>> =>
                     /\ trk'.x_center = res.st.c[1]
                     /\ trk'.y_center = res.st.c[2]
                     /\ trk'.face_gender = res.st.g
                     /\ trk'.face_embedding_list = res.st.h]_vars

\* The swap phase of a video run: the pool or the sequential loop is at work.
SwapPhase == pc \in {"pool", "seq"}

\* C18: in a video run, by the time of the first gate or swap call the
\* detection pass has gone over every frame of the selected range and the
\* selections are the ones it returned; while the swap phase lasts no step
\* changes the tracker's locals or a selection.
C18_TwoPhaseSeparation ==
    /\ []((pc # "idle" /\ \E c \in log : c.op \in {"gate", "swap"}) =>
             /\ SwapPhase
             /\ trk.n = Len(call.frame_files)
             /\ \A p \in 1..Len(call.frame_files) :
                    DetectCall(call.frame_files[p]) \in log
             /\ call.face_det_results = trk.predictions)
    /\ []((pc = "detect" /\ call.strategy # "track") =>
             \A c \in log : c.op = "detect")
    /\ [][(SwapPhase /\ pc' = pc) =>
              /\ trk' = trk
              /\ call'.face_det_results = call.face_det_results]_vars

\* C18 witness: a threaded run over three frames in which one worker has
\* saved its frame, one is inside process_frame and one task is still
\* queued, all three selections being fixed.
C18_Witness ==
    /\ pc = "pool"
    /\ Len(call.frame_files) = 3
    /\ Len(call.face_det_results) = 3
    /\ \E a, b, c \in 1..3 :
           /\ pool.task[a] = "saved"
           /\ pool.task[b] = "running"
           /\ pool.task[c] = "queued"
    /\ \E g \in log : g.op = "swap"

\* Tasks whose worker is inside "with self.lock".
InLock == {k \in 1..Len(pool.task) : pool.task[k] = "locked"}

\* C19 as claimed: in a threaded run at most one worker is inside the locked
\* section, where the counter is read and written; and when a video run
\* (threaded or sequential, first or later on the instance) has finished, the
\* counter equals the number of frames the run processed.
C19_ProgressCounter ==
    /\ Cardinality(InLock) <= 1
    /\ \A k \in InLock : pool.lock = k
    /\ \A k \in VideoRuns :
           runs[k].outcome = "ok" => runs[k].progress = Len(runs[k].frame_files)

\* The selection C20 states for one frame with detections dets and selector
\* centre c, single mode: without a selector the first detected face; with a
\* selector the first face whose box holds the centre, else the nearest face
\* by Euclidean distance of centres when strictly within 35% of the frame
\* diagonal, else no face.
ClaimedImageSelection(dets, c) ==
    LET inside == {k \in 1..Len(dets) : Contains(Bbox(dets[k]), c[1], c[2])}
        k0 == Min(Nearest(dets, c[1], c[2]))
    IN  IF c[1] = None \/ c[2] = None THEN <<dets[1]>>
        ELSE IF inside # {} THEN <<dets[Min(inside)]>>
        ELSE IF euclidean_distance(c, get_center(dets[k0])) < get_min_distance(ImgShape)
             THEN <<dets[k0]>>
             ELSE <<>>

\* C20 as claimed: on a safe frame with detections swap_image, in single
\* mode, swaps exactly the faces of the selection above; in multiple mode the
\* faces it swaps are detected faces and include that selection.
C20_ImageFollowsTracker ==
    \A k \in ImageRuns :
        LET f == ImageFile(runs[k])
            dets == get_faces(f)
            want == ClaimedImageSelection(dets, get_real_crop_box(ImgShape, face_fields))
        IN  (files[f].safe /\ dets # <<>>) =>
                /\ runs[k].outcome = "ok"
                /\ IF opts.multiface
                   THEN Range(want) \subseteq Range(runs[k].out[1].swaps)
                   ELSE runs[k].out[1].swaps = want

\* The faces a tracker step has put into the selection of its frame: the
\* entry it appended to predictions, if any, without the None marker.
StepSelection ==
    IF Len(trk'.predictions) > Len(trk.predictions)
    THEN LET sel == trk'.predictions[Len(trk'.predictions)]
         IN  IF sel = <<0>> THEN <<>> ELSE sel
    ELSE <<>>

\* C21: every tracker step leaves the history it found as a prefix of the new
\* one and appends to it the embeddings of exactly the faces the step
\* selected, which are faces of the frame in detector order; the history is
\* non-empty exactly when some frame so far has a non-empty selection; and
\* once it is non-empty no later frame takes a cold-start branch.
C21_HistoryAppendOnly ==
    /\ [][(/\ Tracking
           /\ pc = "detect"
           /\ trk'.n = trk.n + 1)
          => LET dets == get_faces(trk.image_files[trk.n + 1])
                 acc == StepSelection
             IN  /\ trk'.face_embedding_list =
                        trk.face_embedding_list \o [k \in 1..Len(acc) |-> Emb(acc[k])]
                 /\ \E pos \in [1..Len(acc) -> 1..Len(dets)] :
                        /\ \A k \in 1..Len(acc) : dets[pos[k]] = acc[k]
                        /\ \A k \in 1..(Len(acc) - 1) : pos[k] < pos[k + 1]
                 /\ trk.face_embedding_list # <<>> =>
                        /\ trk'.x_center # None /\ trk'.y_center # None
                        /\ trk'.path[trk'.n] \in {"none", "warm"}]_vars
    /\ [](Tracking =>
             (trk.face_embedding_list # <<>>
                 <=> \E k \in 1..Len(trk.predictions) : trk.predictions[k] # <<0>>))

\* C21 witness: multiple mode, three frames: an adoption, a warm frame that
\* accepts two faces in detector order, a warm frame that accepts none; the
\* history holds the three embeddings in that order.
C21_Witness ==
    /\ Tracking
    /\ similarface
    /\ trk.n = 3
    /\ trk.predictions = <<(<<1>>), <<4, 1>>, (<<0>>)>>
    /\ trk.face_embedding_list = <<1, 3, 1>>

\* The frames the workers of a finished call of swap_video_thread produced,
\* by task index.
OwnFrames(r) ==
    [k \in 1..Len(r.frame_files) |->
        ProcessFrameImage(imread(r.frame_files[k]), r.face_det_results[k])]

\* Finished calls of swap_video_thread of either caller that wrote a video.
SharedRuns ==
    {r \in Range(runs) \cup Range(peer.runs) :
        r.strategy = "thread" /\ r.outcome = "ok"}

\* C22: the tasks of one pool write files of pairwise distinct names; the
\* writer of a call starts only when every task of its pool is done; and
\* with two callers running swap_video_thread at the same time on one
\* save_path (no frame range given) the video each call writes holds, index
\* by index, the frame its own worker produced.
C22_ConcurrentRunsIsolated ==
    /\ [](pc = "pool" =>
             \A j, k \in 1..Len(pool.task) :
                 j # k => ProcessedFrameFiles[j] # ProcessedFrameFiles[k])
    /\ [][(/\ pc = "pool"
           /\ peer' = peer
           /\ Len(runs') = Len(runs) + 1)
          => \A k \in 1..Len(pool.task) : pool.task[k] = "done"]_vars
    /\ [](\A r \in SharedRuns : r.out = OwnFrames(r))

====
